---- MODULE Spec2Model ----
(***************************************************************************)
(* Model of the time-slot conflict detection, the hour aggregation, the    *)
(* leave workflow, the planning deletion and the role permissions of the   *)
(* planning backend: the creneau, syntheseHeures, planning, conge,         *)
(* employee and employeePermission tables, the in-memory ROLE_PERMISSIONS  *)
(* table, and the request handlers that read and write them.               *)
(*                                                                         *)
(* Spec, SpecCheck, SpecPlanning, SpecHours, SpecDelete, SpecLeave,        *)
(*   SpecWorkflow, SpecBlock, SpecBounds, SpecRoles : every handler runs   *)
(*   to completion before the next one starts; each specification takes    *)
(*   the handlers and the inputs its properties are about.                 *)
(* SpecAtomic : time-slot update advances one database call at a time and  *)
(*   its transaction may expire before the commit.                         *)
(* SpecDefer, SpecDeferFair : time-slot delete advances one database call  *)
(*   at a time; its commit and its timer callback are not ordered, and the *)
(*   deferred write may throw.  SpecDeferFair adds weak fairness on the    *)
(*   database and timer steps.                                             *)
(* SpecRace, SpecConc : time-slot create, resp. time-slot update, advance  *)
(*   one database call (one await) at a time and requests interleave.      *)
(***************************************************************************)
EXTENDS Integers, FiniteSets, Sequences, TLC

\* ------------------------------------------------------------------ bounds
\* Timestamps are the instants 0..MaxTime.
MaxTime == 2
\* At most MaxSlots creneau rows are ever created (ids 1..MaxSlots).
MaxSlots == 2
\* At most MaxReqs requests are in flight at a time.
MaxReqs == 2
\* Leaves start and end at the instants 0..MaxLeaveTime, two instants a day.
MaxLeaveTime == 4
\* At most MaxConges conge rows are ever created (ids 1..MaxConges).
MaxConges == 2

Times == 0..MaxTime
Employees == {"e1", "e2"}
PlanningIds == {"p1", "p2"}
SlotIds == 1..MaxSlots
\* duree is a free input (z.number().int().positive()), stored as given.
Durees == {30, 75}
\* Values of new Date() at the time of a request.
Clock == {0, 1}
\* Number of creneaux of a planning submission (z.array(...).min(1)).
BatchSizes == {1, 2}

\* An optional input is {} (undefined in the source) or {v}.
Opt(S) == {{}} \cup { {x} : x \in S }
Val(o) == CHOOSE x \in o : TRUE
NoPlanning == "none"
NoEmployee == "none"

VARIABLES
  creneaux,    \* table Creneau: set of rows
  syntheses,   \* table SyntheseHeures: set of rows
  plannings,   \* table Planning: set of ids
  nextId,      \* next fresh creneau id
  last,        \* the last response sent, with what the properties need of its request
  reqs,        \* requests in flight (SpecRace, SpecConc)
  statuts,     \* table Planning: the statut of each planning
  conges,      \* table Conge: set of rows
  ROLE_PERMISSIONS,    \* the in-memory table of lib/roles: role -> permissions
  employee,            \* table Employee: set of rows (id, role)
  employeePermission   \* table EmployeePermission: set of rows

\* What the role and permission endpoints write.
roles == <<ROLE_PERMISSIONS, employee, employeePermission>>

vars == <<creneaux, syntheses, plannings, nextId, last, reqs, statuts, conges, roles>>

\* ROLE_PERMISSIONS as lib/roles declares it.
DefaultRolePermissions ==
  [role \in {"EMPLOYE_BASE", "MANAGER", "ADMIN"} |->
     CASE role = "EMPLOYE_BASE" -> {"PLANNING_READ", "LEAVE_REQUEST"}
       [] role = "MANAGER" -> {"PLANNING_READ", "PLANNING_CREATE", "LEAVE_REQUEST",
                               "LEAVE_VIEW_TEAM", "EMPLOYEE_READ", "TEAM_VIEW_STATS"}
       [] role = "ADMIN" -> {"ALL_ACCESS"}]

\* ------------------------------------------------------------ pure helpers
RECURSIVE SumDuree(_)
SumDuree(S) ==
  IF S = {} THEN 0
  ELSE LET s == CHOOSE x \in S : TRUE IN s.duree + SumDuree(S \ {s})

Min(S) == CHOOSE x \in S : \A y \in S : x <= y
Max(S) == CHOOSE x \in S : \A y \in S : x >= y

Ids(S) == { s.id : s \in S }

\* Overlap with lte / gte: closed intervals.
OverlapClosed(s, debut, fin) == s.dateDebut <= fin /\ s.dateFin >= debut

\* { dateDebut: { lt: fin }, dateFin: { gt: debut } }
Overlap(s, debut, fin) == s.dateDebut < fin /\ s.dateFin > debut

\* Prisma NOT: { id: X || undefined, planningId: Y || undefined }.  An
\* undefined field is dropped; the remaining fields of the one object are
\* ANDed and the conjunction is negated; an empty NOT is no condition.
NotClause(s, id, planningId) ==
  IF id = {} /\ planningId = NoPlanning THEN TRUE
  ELSE ~( (id # {} => s.id = Val(id))
          /\ (planningId # NoPlanning => s.planningId = planningId) )

\* check-conflicts: whereClause / findMany
ConflictingSlots(store, employeeId, dateDebut, dateFin, ignoreCreneauId, planningId) ==
  { s \in store : /\ s.employeeId = employeeId
                  /\ NotClause(s, ignoreCreneauId, planningId)
                  /\ Overlap(s, dateDebut, dateFin) }

Creneau(id, planningId, employeeId, dateDebut, dateFin, duree, valide) ==
  [id |-> id, planningId |-> planningId, employeeId |-> employeeId,
   dateDebut |-> dateDebut, dateFin |-> dateFin, duree |-> duree, valide |-> valide]

\* ------------------------------------------------ table SyntheseHeures
Synthese(planningId, employeeId, from, to, heuresNormales, heuresSupplementaires) ==
  [planningId |-> planningId, employeeId |-> employeeId,
   periodeFrom |-> from, periodeTo |-> to,
   heuresNormales |-> heuresNormales,
   heuresSupplementaires |-> heuresSupplementaires, statut |-> "BROUILLON"]

SyntheseFind(synth, planningId, employeeId) ==
  { r \in synth : r.planningId = planningId /\ r.employeeId = employeeId }

\* syntheseHeures.create over a table without the composite key.
SyntheseInsertUnkeyed(synth, row) == [ok |-> TRUE, rows |-> synth \cup {row}]

\* syntheseHeures.create under @@id([planningId, employeeId]): a second row
\* of an existing key is refused (unique constraint violation).
SyntheseInsert(synth, row) ==
  IF SyntheseFind(synth, row.planningId, row.employeeId) # {}
  THEN [ok |-> FALSE, rows |-> synth]
  ELSE [ok |-> TRUE, rows |-> synth \cup {row}]

\* syntheseHeures.createMany: all the rows or, when one key exists, none.
SyntheseInsertMany(synth, rows) ==
  IF \E row \in rows : ~SyntheseInsert(synth, row).ok
  THEN [ok |-> FALSE, rows |-> synth]
  ELSE [ok |-> TRUE, rows |-> synth \cup rows]

\* syntheseHeures.update({ where: planningId_employeeId, data: {...} })
SyntheseSet(synth, planningId, employeeId, heuresNormales, heuresSupplementaires) ==
  { IF r.planningId = planningId /\ r.employeeId = employeeId
    THEN [r EXCEPT !.heuresNormales = heuresNormales,
                   !.heuresSupplementaires = heuresSupplementaires]
    ELSE r : r \in synth }

\* An upsert whose update branch stamps the period again.
SyntheseUpsertRestamp(synth, planningId, employeeId, heuresNormales, heuresSupplementaires, now) ==
  (synth \ SyntheseFind(synth, planningId, employeeId))
    \cup { Synthese(planningId, employeeId, now, now, heuresNormales, heuresSupplementaires) }

\* syntheseHeures.upsert: update leaves the period alone, create stamps it.
SyntheseUpsert(synth, planningId, employeeId, heuresNormales, heuresSupplementaires, now) ==
  IF SyntheseFind(synth, planningId, employeeId) # {}
  THEN SyntheseSet(synth, planningId, employeeId, heuresNormales, heuresSupplementaires)
  ELSE SyntheseInsert(synth, Synthese(planningId, employeeId, now, now,
                                      heuresNormales, heuresSupplementaires)).rows

SyntheseDeleteMany(synth, planningId, employeeId) ==
  synth \ SyntheseFind(synth, planningId, employeeId)

\* creneau.findMany({ where: { planningId, employeeId }, select: { duree } })
PairSlots(store, planningId, employeeId) ==
  { s \in store : s.planningId = planningId /\ s.employeeId = employeeId }

TotalMinutes(store, planningId, employeeId) ==
  SumDuree(PairSlots(store, planningId, employeeId))

\* updateSynthese of time-slots/create summing the validated slots only.
UpdateSyntheseCreateValide(store, synth, planningId, employeeId, now) ==
  LET totalMinutes == SumDuree({ s \in PairSlots(store, planningId, employeeId) : s.valide })
  IN SyntheseUpsert(synth, planningId, employeeId,
                    totalMinutes \div 60, totalMinutes % 60, now)

\* updateSynthese of time-slots/create: unconditional upsert.
UpdateSyntheseCreate(store, synth, planningId, employeeId, now) ==
  LET totalMinutes == TotalMinutes(store, planningId, employeeId)
  IN SyntheseUpsert(synth, planningId, employeeId,
                    totalMinutes \div 60, totalMinutes % 60, now)

\* updateSynthese of time-slots/update: findFirst, then update or create.
UpdateSyntheseUpdate(store, synth, planningId, employeeId, now) ==
  LET totalMinutes == TotalMinutes(store, planningId, employeeId)
      existing == SyntheseFind(synth, planningId, employeeId)
  IN IF existing # {}
     THEN [ok |-> TRUE,
           rows |-> SyntheseSet(synth, planningId, employeeId,
                                totalMinutes \div 60, totalMinutes % 60)]
     ELSE SyntheseInsert(synth, Synthese(planningId, employeeId, now, now,
                                         totalMinutes \div 60, totalMinutes % 60))

\* updateSynthese of time-slots/delete: upsert when minutes remain, else deleteMany.
UpdateSyntheseDelete(store, synth, planningId, employeeId, now) ==
  LET totalMinutes == TotalMinutes(store, planningId, employeeId)
  IN IF totalMinutes > 0
     THEN SyntheseUpsert(synth, planningId, employeeId,
                         totalMinutes \div 60, totalMinutes % 60, now)
     ELSE SyntheseDeleteMany(synth, planningId, employeeId)

\* What a run of updateSynthese tells the properties: the pair it ran for
\* and the minutes it summed.
Recomputed(store, planningId, employeeId) ==
  { [planningId |-> planningId, employeeId |-> employeeId,
     totalMinutes |-> TotalMinutes(store, planningId, employeeId)] }

\* ------------------------------------------------------------- responses
\* The response of a handler: its HTTP status, the arguments of its request
\* that the properties refer to (req) and, in res, the conflicts it reports
\* or the run of updateSynthese it made.
Response(op, status, req, res) ==
  [op |-> op, status |-> status, req |-> req, res |-> res]

\* ------------------------------------------------------------------- Init
\* One planning exists and holds no slot (it was created with one slot, which
\* was deleted afterwards); no request is in flight.  The employees of the
\* slots and leaves are base employees with the permissions of their role,
\* and ROLE_PERMISSIONS is as the module declares it.
Init ==
  /\ creneaux = {}
  /\ syntheses = {}
  /\ plannings = {"p1"}
  /\ nextId = 1
  /\ last = Response("init", 200, {}, {})
  /\ reqs = {}
  /\ statuts = [p \in {"p1"} |-> "BROUILLON"]
  /\ conges = {}
  /\ ROLE_PERMISSIONS = DefaultRolePermissions
  /\ employee = { [id |-> e, role |-> "EMPLOYE_BASE"] : e \in Employees }
  /\ employeePermission =
       { [employeeId |-> e, permission |-> p] :
           e \in Employees, p \in DefaultRolePermissions["EMPLOYE_BASE"] }

\* ------------------------------------------------- POST check-conflicts
\* conge.findFirst: a leave of the employee with statut VALIDE whose
\* [dateDebut, dateFin] meets the instants of the window (lte / gte).
OnLeave(rows, employeeId, dateDebut, dateFin) ==
  { c \in rows : /\ c.employeeId = employeeId
                 /\ c.statut = "VALIDE"
                 /\ c.dateDebut <= dateFin
                 /\ c.dateFin >= dateDebut }

CheckConflicts(employeeId, dateDebut, dateFin, ignoreCreneauId, planningId) ==
  LET conflictingSlots ==
        ConflictingSlots(creneaux, employeeId, dateDebut, dateFin,
                         ignoreCreneauId, planningId)
      onLeave == OnLeave(conges, employeeId, dateDebut, dateFin)
  IN /\ last' = Response("check", 200,
                         [employeeId |-> employeeId, dateDebut |-> dateDebut,
                          dateFin |-> dateFin, ignoreCreneauId |-> ignoreCreneauId,
                          planningId |-> planningId],
                         [hasConflicts |-> conflictingSlots # {},
                          conflicts |-> Ids(conflictingSlots),
                          leaveStatus |-> IF onLeave # {} THEN "EN_CONGE"
                                          ELSE "AUCUN_CONGE"])
     /\ UNCHANGED <<creneaux, syntheses, plannings, statuts, conges, nextId, reqs, roles>>

\* -------------------------------------------------- POST time-slots/create
\* NOT: { planningId } : slots of the same planning are not looked at.
CreateConflicts(store, planningId, employeeId, dateDebut, dateFin) ==
  { s \in store : /\ s.employeeId = employeeId
                  /\ s.planningId # planningId
                  /\ Overlap(s, dateDebut, dateFin) }

\* A time-slot create that inserts the row before it looks for conflicts and
\* leaves it in place when it answers 409.
TSCreateInsertFirst(planningId, employeeId, dateDebut, dateFin, duree, valide, now) ==
  LET conflicts == CreateConflicts(creneaux, planningId, employeeId, dateDebut, dateFin)
      newTimeSlot == Creneau(nextId, planningId, employeeId, dateDebut, dateFin, duree, valide)
      stored == creneaux \cup {newTimeSlot}
      req == [planningId |-> planningId, employeeId |-> employeeId]
  IN /\ UNCHANGED <<plannings, statuts, conges, reqs, roles>>
     /\ IF planningId \notin plannings
        THEN /\ last' = Response("tscreate", 404, req, {})
             /\ UNCHANGED <<creneaux, syntheses, nextId>>
        ELSE /\ nextId <= MaxSlots
             /\ creneaux' = stored
             /\ nextId' = nextId + 1
             /\ IF conflicts # {}
                THEN /\ last' = Response("tscreate", 409, req, Ids(conflicts))
                     /\ UNCHANGED syntheses
                ELSE /\ syntheses' = UpdateSyntheseCreate(stored, syntheses, planningId,
                                                         employeeId, now)
                     /\ last' = Response("tscreate", 201, req,
                                         Recomputed(stored, planningId, employeeId))

TSCreate(planningId, employeeId, dateDebut, dateFin, duree, valide, now) ==
  LET conflicts == CreateConflicts(creneaux, planningId, employeeId, dateDebut, dateFin)
      newTimeSlot == Creneau(nextId, planningId, employeeId, dateDebut, dateFin, duree, valide)
      stored == creneaux \cup {newTimeSlot}
      req == [planningId |-> planningId, employeeId |-> employeeId]
  IN /\ UNCHANGED <<plannings, statuts, conges, reqs, roles>>
     /\ IF conflicts # {}
        THEN /\ last' = Response("tscreate", 409, req, Ids(conflicts))
             /\ UNCHANGED <<creneaux, syntheses, nextId>>
        ELSE IF planningId \notin plannings
        THEN /\ last' = Response("tscreate", 404, req, {})
             /\ UNCHANGED <<creneaux, syntheses, nextId>>
        ELSE /\ nextId <= MaxSlots
             /\ creneaux' = stored
             /\ nextId' = nextId + 1
             /\ syntheses' = UpdateSyntheseCreate(stored, syntheses, planningId, employeeId, now)
             /\ last' = Response("tscreate", 201, req,
                                 Recomputed(stored, planningId, employeeId))

\* ----------------------------------------------- DELETE time-slots/delete
\* The transaction deletes the row; the timer callback then recomputes the
\* summary of the deleted slot's pair.
TSDelete(id, now) ==
  LET found == { s \in creneaux : s.id = id }
      timeSlot == CHOOSE s \in found : TRUE
      stored == creneaux \ found
  IN /\ UNCHANGED <<plannings, statuts, conges, nextId, reqs, roles>>
     /\ IF found = {}
        THEN /\ last' = Response("tsdelete", 404, [id |-> id], {})
             /\ UNCHANGED <<creneaux, syntheses>>
        ELSE /\ creneaux' = stored
             /\ syntheses' = UpdateSyntheseDelete(stored, syntheses, timeSlot.planningId,
                                                  timeSlot.employeeId, now)
             /\ last' = Response("tsdelete", 200, [id |-> id],
                                 Recomputed(stored, timeSlot.planningId,
                                            timeSlot.employeeId))

\* --------------------------------------------- PUT time-slots/update/[id]
\* NOT: { id } : every other slot of the employee is looked at, whatever its
\* planning.
UpdateConflicts(store, id, employeeId, startDate, endDate) ==
  { s \in store : /\ s.employeeId = employeeId
                  /\ s.id # id
                  /\ Overlap(s, startDate, endDate) }

\* employeeId is an employee or NoEmployee; dateDebut, dateFin, duree and
\* valide are optional.  updateSynthese is called inside the transaction
\* callback but queries through the module-level client, so it reads the
\* creneau rows committed before the transaction (`creneaux`, not the updated
\* row) and its write is not part of the transaction.
TSUpdate(id, employeeId, dateDebut, dateFin, duree, valide, now) ==
  LET found == { s \in creneaux : s.id = id }
      existingTimeSlot == CHOOSE s \in found : TRUE
      checked == dateDebut # {} \/ dateFin # {}
      startDate == IF dateDebut # {} THEN Val(dateDebut) ELSE existingTimeSlot.dateDebut
      endDate == IF dateFin # {} THEN Val(dateFin) ELSE existingTimeSlot.dateFin
      target == IF employeeId # NoEmployee THEN employeeId ELSE existingTimeSlot.employeeId
      conflicts == UpdateConflicts(creneaux, id, target, startDate, endDate)
      timeSlot == [existingTimeSlot EXCEPT
                     !.employeeId = target,
                     !.dateDebut = startDate,
                     !.dateFin = endDate,
                     !.duree = IF duree # {} THEN Val(duree) ELSE @,
                     !.valide = IF valide # {} THEN Val(valide) ELSE @]
      recompute == duree # {} \/ employeeId # NoEmployee
      synthese == UpdateSyntheseUpdate(creneaux, syntheses, timeSlot.planningId,
                                       timeSlot.employeeId, now)
  IN /\ UNCHANGED <<plannings, statuts, conges, nextId, reqs, roles>>
     /\ IF found = {}
        THEN /\ last' = Response("tsupdate", 404, [id |-> id], {})
             /\ UNCHANGED <<creneaux, syntheses>>
        ELSE IF checked /\ conflicts # {}
        THEN /\ last' = Response("tsupdate", 409, [id |-> id], Ids(conflicts))
             /\ UNCHANGED <<creneaux, syntheses>>
        ELSE /\ creneaux' = (creneaux \ found) \cup {timeSlot}
             /\ IF recompute
                THEN /\ syntheses' = synthese.rows
                     /\ last' = Response("tsupdate", 200, [id |-> id],
                                         Recomputed(creneaux, timeSlot.planningId,
                                                    timeSlot.employeeId))
                ELSE /\ syntheses' = syntheses
                     /\ last' = Response("tsupdate", 200, [id |-> id], {})

\* ----------------------------------------------------- POST planning/create
\* A proposed creneau of a planning submission.
Candidate(id, employeeId, dateDebut, dateFin, duree, valide) ==
  [id |-> id, employeeId |-> employeeId, dateDebut |-> dateDebut,
   dateFin |-> dateFin, duree |-> duree, valide |-> valide]

Group(batch, employeeId) ==
  { i \in DOMAIN batch : batch[i].employeeId = employeeId }

\* checkCreneauConflicts of the first planning/create route: one findMany per
\* proposal, in the same <<proposal index, conflicting stored ids>> form.
CheckCreneauConflictsNaive(store, batch) ==
  { <<i, Ids({ s \in store : /\ s.employeeId = batch[i].employeeId
                             /\ Overlap(s, batch[i].dateDebut, batch[i].dateFin) })>> :
      i \in { j \in DOMAIN batch :
                \E s \in store : /\ s.employeeId = batch[j].employeeId
                                 /\ Overlap(s, batch[j].dateDebut, batch[j].dateFin) } }

\* A batch check that stops at the bounding window: every proposal of an
\* employee is reported with all the rows the window query returned.
CheckCreneauConflictsBounding(store, batch) ==
  UNION { LET employeeCreneaux == Group(batch, employeeId)
              dateDebut == Min({ batch[i].dateDebut : i \in employeeCreneaux })
              dateFin == Max({ batch[i].dateFin : i \in employeeCreneaux })
              existing == { s \in store : /\ s.employeeId = employeeId
                                          /\ s.dateDebut < dateFin
                                          /\ s.dateFin > dateDebut }
          IN IF existing = {} THEN {}
             ELSE { <<i, Ids(existing)>> : i \in employeeCreneaux }
        : employeeId \in { batch[i].employeeId : i \in DOMAIN batch } }

\* A conflict check that also holds the proposals of one employee against
\* each other.
CheckCreneauConflictsSiblings(store, batch) ==
  { <<i, {}>> : i \in { j \in DOMAIN batch :
      \/ \E s \in store : s.employeeId = batch[j].employeeId
                            /\ Overlap(s, batch[j].dateDebut, batch[j].dateFin)
      \/ \E k \in DOMAIN batch \ {j} :
            /\ batch[k].employeeId = batch[j].employeeId
            /\ batch[k].dateDebut < batch[j].dateFin
            /\ batch[k].dateFin > batch[j].dateDebut } }

\* checkCreneauConflictsOptimized: per employee, the stored slots that meet
\* the bounding window of the employee's proposals, then each proposal
\* against those.  The result is the set of <<proposal index, conflicting
\* stored ids>> entries pushed.
CheckCreneauConflictsOptimized(store, batch) ==
  UNION { LET employeeCreneaux == Group(batch, employeeId)
              dateDebut == Min({ batch[i].dateDebut : i \in employeeCreneaux })
              dateFin == Max({ batch[i].dateFin : i \in employeeCreneaux })
              existing == { s \in store : /\ s.employeeId = employeeId
                                          /\ s.dateDebut < dateFin
                                          /\ s.dateFin > dateDebut }
          IN { <<i, Ids({ ex \in existing :
                            /\ ex.dateDebut < batch[i].dateFin
                            /\ ex.dateFin > batch[i].dateDebut })>> :
                 i \in { j \in employeeCreneaux :
                           \E ex \in existing : /\ ex.dateDebut < batch[j].dateFin
                                                /\ ex.dateFin > batch[j].dateDebut } }
        : employeeId \in { batch[i].employeeId : i \in DOMAIN batch } }

RECURSIVE SumBatch(_, _)
SumBatch(batch, idx) ==
  IF idx = {} THEN 0
  ELSE LET i == CHOOSE x \in idx : TRUE IN batch[i].duree + SumBatch(batch, idx \ {i})

\* Math.round of the sum of duree / 60 (the durations drawn are multiples of
\* 15 minutes, so the floating-point sum is exact; halves round up).
RoundHours(totalMinutes) == (2 * totalMinutes + 60) \div 120

\* createSynthesesOptimized: one row per employee of the submission.
CreateSynthesesOptimized(planningId, batch) ==
  LET periodeFrom == Min({ batch[i].dateDebut : i \in DOMAIN batch })
      periodeTo == Max({ batch[i].dateFin : i \in DOMAIN batch })
  IN { Synthese(planningId, employeeId, periodeFrom, periodeTo,
                RoundHours(SumBatch(batch, Group(batch, employeeId))), 0) :
         employeeId \in { batch[i].employeeId : i \in DOMAIN batch } }

\* creneau.createMany: the proposals become rows nextId, nextId + 1, ...
CreatedSlots(planningId, batch, firstId) ==
  { Creneau(firstId + i - 1, planningId, batch[i].employeeId, batch[i].dateDebut,
            batch[i].dateFin, batch[i].duree, FALSE) : i \in DOMAIN batch }

\* statut is the statut of the body (BROUILLON when the body has none).
PlanningCreate(statut, batch) ==
  LET conflicts == CheckCreneauConflictsOptimized(creneaux, batch)
      planning == CHOOSE p \in PlanningIds \ plannings : TRUE
  IN /\ UNCHANGED <<reqs, conges, roles>>
     /\ IF conflicts # {}
        THEN /\ last' = Response("plcreate", 409, batch, conflicts)
             /\ UNCHANGED <<creneaux, syntheses, plannings, statuts, nextId>>
        ELSE /\ PlanningIds \ plannings # {}
             /\ nextId + Len(batch) - 1 <= MaxSlots
             /\ plannings' = plannings \cup {planning}
             /\ statuts' = [p \in plannings \cup {planning} |->
                              IF p = planning THEN statut ELSE statuts[p]]
             /\ creneaux' = creneaux \cup CreatedSlots(planning, batch, nextId)
             /\ nextId' = nextId + Len(batch)
             /\ syntheses' = SyntheseInsertMany(syntheses,
                                               CreateSynthesesOptimized(planning, batch)).rows
             /\ last' = Response("plcreate", 201, batch, {planning})

\* ------------------------------------------------ PUT planning/update/[id]
\* checkCreneauConflicts: one query per proposal, with
\* NOT: { id: creneau.id ? creneau.id : undefined, planningId }.
CheckCreneauConflicts(store, batch, planningId) ==
  { <<i, Ids(ConflictingSlots(store, batch[i].employeeId, batch[i].dateDebut,
                              batch[i].dateFin, batch[i].id, planningId))>> :
      i \in { j \in DOMAIN batch :
                ConflictingSlots(store, batch[j].employeeId, batch[j].dateDebut,
                                 batch[j].dateFin, batch[j].id, planningId) # {} } }

\* The for loop of the transaction: update the proposals that carry an id
\* (creneau.update throws when the row does not exist), create the others.
RECURSIVE ApplyBatch(_, _, _, _, _)
ApplyBatch(store, batch, i, planningId, freeId) ==
  IF i > Len(batch) THEN [ok |-> TRUE, store |-> store, nextId |-> freeId]
  ELSE LET creneau == batch[i]
           found == { s \in store : creneau.id # {} /\ s.id = Val(creneau.id) }
           old == CHOOSE s \in found : TRUE
       IN IF creneau.id # {}
          THEN IF found = {}
               THEN [ok |-> FALSE, store |-> store, nextId |-> freeId]
               ELSE ApplyBatch((store \ found) \cup
                                 { Creneau(old.id, old.planningId, creneau.employeeId,
                                           creneau.dateDebut, creneau.dateFin,
                                           creneau.duree, creneau.valide) },
                               batch, i + 1, planningId, freeId)
          ELSE ApplyBatch(store \cup
                            { Creneau(freeId, planningId, creneau.employeeId,
                                      creneau.dateDebut, creneau.dateFin,
                                      creneau.duree, creneau.valide) },
                          batch, i + 1, planningId, freeId + 1)

\* updateSyntheses: deletes the summaries of the planning, reads its slots
\* and writes nothing back.
UpdateSyntheses(synth, planningId) ==
  { r \in synth : r.planningId # planningId }

\* `batch` is the creneaux array of the request, statut its optional statut
\* (planning.update leaves the column alone when the body has none).
PlanningUpdate(id, statut, batch) ==
  LET conflicts == CheckCreneauConflicts(creneaux, batch, id)
      creneauxToKeep == { Val(batch[i].id) : i \in { j \in DOMAIN batch : batch[j].id # {} } }
      kept == { s \in creneaux : ~(s.planningId = id /\ s.id \notin creneauxToKeep) }
      applied == ApplyBatch(kept, batch, 1, id, nextId)
  IN /\ UNCHANGED <<plannings, conges, reqs, roles>>
     /\ IF id \notin plannings
        THEN /\ last' = Response("plupdate", 404, [id |-> id], {})
             /\ UNCHANGED <<creneaux, syntheses, nextId, statuts>>
        ELSE IF conflicts # {}
        THEN /\ last' = Response("plupdate", 409, [id |-> id], conflicts)
             /\ UNCHANGED <<creneaux, syntheses, nextId, statuts>>
        ELSE IF ~applied.ok
        THEN /\ last' = Response("plupdate", 500, [id |-> id], {})
             /\ UNCHANGED <<creneaux, syntheses, nextId, statuts>>
        ELSE /\ applied.nextId - 1 <= MaxSlots
             /\ statuts' = IF statut = {} THEN statuts
                            ELSE [statuts EXCEPT ![id] = Val(statut)]
             /\ creneaux' = applied.store
             /\ nextId' = applied.nextId
             /\ syntheses' = UpdateSyntheses(syntheses, id)
             /\ last' = Response("plupdate", 200, [id |-> id], {})

\* ------------------------------------------------------- specifications
\* The windows a request may carry.
\* ------------------------------------------- DELETE planning/delete/[id]
\* The statut that stops the deletion.
DeleteRefused(statut) == statut = "PUBLIE"

\* The transaction deletes the slots and the summaries of the planning, then
\* the planning.
PlanningDelete(id) ==
  /\ UNCHANGED <<nextId, reqs, conges, roles>>
  /\ IF id \notin plannings
     THEN /\ last' = Response("pldelete", 404, [id |-> id], {})
          /\ UNCHANGED <<creneaux, syntheses, plannings, statuts>>
     ELSE IF DeleteRefused(statuts[id])
     THEN /\ last' = Response("pldelete", 403, [id |-> id], {})
          /\ UNCHANGED <<creneaux, syntheses, plannings, statuts>>
     ELSE /\ creneaux' = { s \in creneaux : s.planningId # id }
          /\ syntheses' = { r \in syntheses : r.planningId # id }
          /\ plannings' = plannings \ {id}
          /\ statuts' = [p \in plannings \ {id} |-> statuts[p]]
          /\ last' = Response("pldelete", 200, [id |-> id], {})

\* ------------------------------------------------------ leave requests
\* A row of Conge; type and the comment columns play no part in the checks.
Conge(id, employeeId, dateDebut, dateFin, statut) ==
  [id |-> id, employeeId |-> employeeId, dateDebut |-> dateDebut,
   dateFin |-> dateFin, statut |-> statut]

\* The decoded token of the caller.
Decoded(employeeId, permissions, hasAllAccess) ==
  [employeeId |-> employeeId, permissions |-> permissions, hasAllAccess |-> hasAllAccess]

\* The conflict query of leave create and leave update: the other leaves of
\* the employee, statut in `among`, whose closed interval meets [dateDebut,
\* dateFin].
ConflictingLeaves(rows, employeeId, exceptId, among, dateDebut, dateFin) ==
  { c \in rows : /\ c.employeeId = employeeId
                 /\ c.id \notin exceptId
                 /\ c.statut \in among
                 /\ c.dateDebut <= dateFin
                 /\ c.dateFin >= dateDebut }

\* A caller check that takes nobody for the requesting employee.
IsOwnerNever(existingRequest, decoded) == FALSE

\* existingRequest.employeeId === decoded.employeeId
IsOwner(existingRequest, decoded) == existingRequest.employeeId = decoded.employeeId

SetStatut(rows, id, statut) ==
  { IF c.id = id THEN [c EXCEPT !.statut = statut] ELSE c : c \in rows }

LeaveReq(decoded, id) == [id |-> id, employeeId |-> decoded.employeeId]

\* POST leave-requests (create).  The limits on working days are never
\* reached by the leaves of the model.
LeaveCreate(decoded, dateDebut, dateFin) ==
  LET hasPermission == "LEAVE_REQUEST" \in decoded.permissions \/ decoded.hasAllAccess
      conflictingLeaves == ConflictingLeaves(conges, decoded.employeeId, {},
                                             {"EN_ATTENTE", "VALIDE"}, dateDebut, dateFin)
      id == Cardinality(conges) + 1
      req == LeaveReq(decoded, id)
  IN /\ UNCHANGED <<creneaux, syntheses, plannings, statuts, nextId, reqs, roles>>
     /\ IF ~hasPermission
        THEN last' = Response("lvcreate", 403, req, {}) /\ UNCHANGED conges
        ELSE IF dateDebut >= dateFin
        THEN last' = Response("lvcreate", 400, req, {}) /\ UNCHANGED conges
        ELSE IF conflictingLeaves # {}
        THEN last' = Response("lvcreate", 409, req, Ids(conflictingLeaves)) /\ UNCHANGED conges
        ELSE /\ id <= MaxConges
             /\ conges' = conges \cup
                  { Conge(id, decoded.employeeId, dateDebut, dateFin, "EN_ATTENTE") }
             /\ last' = Response("lvcreate", 201, req, {})

\* POST leave-requests/approve/[id]
LeaveApprove(decoded, id) ==
  LET canApprove == "LEAVE_APPROVE" \in decoded.permissions \/ decoded.hasAllAccess
      found == { c \in conges : c.id = id }
      existingRequest == CHOOSE c \in found : TRUE
      conflictingRequests ==
        ConflictingLeaves(conges, existingRequest.employeeId, {id}, {"VALIDE"},
                          existingRequest.dateDebut, existingRequest.dateFin)
      req == LeaveReq(decoded, id)
  IN /\ UNCHANGED <<creneaux, syntheses, plannings, statuts, nextId, reqs, roles>>
     /\ IF ~canApprove
        THEN last' = Response("lvapprove", 403, req, {}) /\ UNCHANGED conges
        ELSE IF found = {}
        THEN last' = Response("lvapprove", 404, req, {}) /\ UNCHANGED conges
        ELSE IF IsOwner(existingRequest, decoded)
        THEN last' = Response("lvapprove", 403, req, {}) /\ UNCHANGED conges
        ELSE IF existingRequest.statut # "EN_ATTENTE"
        THEN last' = Response("lvapprove", 400, req, {}) /\ UNCHANGED conges
        ELSE IF conflictingRequests # {}
        THEN last' = Response("lvapprove", 409, req, Ids(conflictingRequests))
             /\ UNCHANGED conges
        ELSE /\ conges' = SetStatut(conges, id, "VALIDE")
             /\ last' = Response("lvapprove", 200, req, {})

\* POST leave-requests/reject/[id]
LeaveReject(decoded, id) ==
  LET canReject == "LEAVE_APPROVE" \in decoded.permissions \/ decoded.hasAllAccess
      found == { c \in conges : c.id = id }
      existingRequest == CHOOSE c \in found : TRUE
      req == LeaveReq(decoded, id)
  IN /\ UNCHANGED <<creneaux, syntheses, plannings, statuts, nextId, reqs, roles>>
     /\ IF ~canReject
        THEN last' = Response("lvreject", 403, req, {}) /\ UNCHANGED conges
        ELSE IF found = {}
        THEN last' = Response("lvreject", 404, req, {}) /\ UNCHANGED conges
        ELSE IF IsOwner(existingRequest, decoded)
        THEN last' = Response("lvreject", 403, req, {}) /\ UNCHANGED conges
        ELSE IF existingRequest.statut # "EN_ATTENTE"
        THEN last' = Response("lvreject", 400, req, {}) /\ UNCHANGED conges
        ELSE /\ conges' = SetStatut(conges, id, "REJETEE")
             /\ last' = Response("lvreject", 200, req, {})

\* POST leave-requests/cancel/[id]; now is new Date() of the date check.
LeaveCancel(decoded, id, now) ==
  LET isAdmin == decoded.hasAllAccess
      canManageLeave == "LEAVE_MANAGE" \in decoded.permissions
      isRegularUser == "LEAVE_REQUEST" \in decoded.permissions
      found == { c \in conges : c.id = id }
      existingRequest == CHOOSE c \in found : TRUE
      isOwner == IsOwner(existingRequest, decoded)
      req == [id |-> id, employeeId |-> decoded.employeeId, now |-> now]
  IN /\ UNCHANGED <<creneaux, syntheses, plannings, statuts, nextId, reqs, roles>>
     /\ IF ~isAdmin /\ ~canManageLeave /\ ~isRegularUser
        THEN last' = Response("lvcancel", 403, req, {}) /\ UNCHANGED conges
        ELSE IF found = {}
        THEN last' = Response("lvcancel", 404, req, {}) /\ UNCHANGED conges
        ELSE IF ~isOwner /\ ~isAdmin /\ ~canManageLeave
        THEN last' = Response("lvcancel", 403, req, {}) /\ UNCHANGED conges
        ELSE IF existingRequest.statut \notin {"EN_ATTENTE", "VALIDE"}
        THEN last' = Response("lvcancel", 400, req, {}) /\ UNCHANGED conges
        ELSE IF existingRequest.dateDebut < now
        THEN last' = Response("lvcancel", 400, req, {}) /\ UNCHANGED conges
        ELSE /\ conges' = SetStatut(conges, id, "ANNULEE")
             /\ last' = Response("lvcancel", 200, req, {})

\* PUT leave-requests/update/[id].  dateDebut, dateFin and statut are
\* optional.  The caller who owns the request is refused just before the
\* restrictions for the callers who are neither admin nor manager.
LeaveUpdate(decoded, id, dateDebut, dateFin, statut) ==
  LET isAdmin == decoded.hasAllAccess
      canManageLeave == "LEAVE_MANAGE" \in decoded.permissions
      isRegularUser == "LEAVE_REQUEST" \in decoded.permissions
      found == { c \in conges : c.id = id }
      existingRequest == CHOOSE c \in found : TRUE
      isOwner == IsOwner(existingRequest, decoded)
      newDebut == IF dateDebut # {} THEN Val(dateDebut) ELSE existingRequest.dateDebut
      newFin == IF dateFin # {} THEN Val(dateFin) ELSE existingRequest.dateFin
      dated == dateDebut # {} \/ dateFin # {}
      conflictingLeaves ==
        ConflictingLeaves(conges, existingRequest.employeeId, {id},
                          {"EN_ATTENTE", "VALIDE"}, newDebut, newFin)
      restricted == ~isAdmin /\ ~canManageLeave
      updateData == [existingRequest EXCEPT
                       !.dateDebut = newDebut,
                       !.dateFin = newFin,
                       !.statut = IF statut # {} /\ ~restricted THEN Val(statut) ELSE @]
      req == LeaveReq(decoded, id)
  IN /\ UNCHANGED <<creneaux, syntheses, plannings, statuts, nextId, reqs, roles>>
     /\ IF ~isAdmin /\ ~canManageLeave /\ ~isRegularUser
        THEN last' = Response("lvupdate", 403, req, {}) /\ UNCHANGED conges
        ELSE IF found = {}
        THEN last' = Response("lvupdate", 404, req, {}) /\ UNCHANGED conges
        ELSE IF ~isOwner /\ ~isAdmin /\ ~canManageLeave
        THEN last' = Response("lvupdate", 403, req, {}) /\ UNCHANGED conges
        ELSE IF dated /\ newDebut >= newFin
        THEN last' = Response("lvupdate", 400, req, {}) /\ UNCHANGED conges
        ELSE IF dated /\ conflictingLeaves # {}
        THEN last' = Response("lvupdate", 409, req, Ids(conflictingLeaves))
             /\ UNCHANGED conges
        ELSE IF isOwner
        THEN last' = Response("lvupdate", 403, req, {}) /\ UNCHANGED conges
        ELSE IF restricted /\ existingRequest.statut # "EN_ATTENTE"
        THEN last' = Response("lvupdate", 403, req, {}) /\ UNCHANGED conges
        ELSE /\ conges' = (conges \ found) \cup {updateData}
             /\ last' = Response("lvupdate", 200, req, {})

\* ------------------------------------------- roles and permissions
\* isPermissionAllowedForRole of lib/roles
IsPermissionAllowedForRole(table, role, permission) ==
  permission \in table[role] \/ "ALL_ACCESS" \in table[role]

\* addPermissionToRole of lib/roles: whether it pushed, and the table after.
AddPermissionToRole(table, role, permission) ==
  IF "ALL_ACCESS" \in table[role] \/ permission \in table[role]
  THEN [ok |-> FALSE, table |-> table]
  ELSE [ok |-> TRUE, table |-> [table EXCEPT ![role] = @ \cup {permission}]]

\* removePermissionFromRole of lib/roles
RemovePermissionFromRole(table, role, permission) ==
  IF permission \in table[role]
  THEN [ok |-> TRUE, table |-> [table EXCEPT ![role] = @ \ {permission}]]
  ELSE [ok |-> FALSE, table |-> table]

\* employeePermission.createMany under @@unique([employeeId, permission]):
\* all the rows or, when one pair exists, none (the call throws).
PermissionInsertMany(rows, new) ==
  IF new \cap rows # {}
  THEN [ok |-> FALSE, rows |-> rows]
  ELSE [ok |-> TRUE, rows |-> rows \cup new]

\* POST employees/create: the employee and, as given in the body, its
\* permissions.  An employee is known by its email, which is its id here.
EmployeeCreate(email, role, permissions) ==
  LET req == [email |-> email, role |-> role]
  IN /\ UNCHANGED <<creneaux, syntheses, plannings, nextId, reqs, statuts, conges,
                    ROLE_PERMISSIONS>>
     /\ IF \E x \in employee : x.id = email
        THEN /\ last' = Response("emcreate", 409, req, {})
             /\ UNCHANGED <<employee, employeePermission>>
        ELSE /\ employee' = employee \cup {[id |-> email, role |-> role]}
             /\ employeePermission' = employeePermission \cup
                  { [employeeId |-> email, permission |-> p] : p \in permissions }
             /\ last' = Response("emcreate", 201, req, {})

\* POST employees/permissions/assign.  addPermissionToRole has pushed the
\* permission when the transaction starts; a createMany that throws rolls
\* the transaction back and the handler answers 500.
PermissionAssign(role, permission) ==
  LET req == [role |-> role, permission |-> permission]
      added == AddPermissionToRole(ROLE_PERMISSIONS, role, permission)
      employees == { x \in employee : x.role = role }
      created == PermissionInsertMany(employeePermission,
                   { [employeeId |-> x.id, permission |-> permission] : x \in employees })
  IN /\ UNCHANGED <<creneaux, syntheses, plannings, nextId, reqs, statuts, conges,
                    employee>>
     /\ IF IsPermissionAllowedForRole(ROLE_PERMISSIONS, role, permission)
        THEN /\ last' = Response("assign", 400, req, {})
             /\ UNCHANGED <<ROLE_PERMISSIONS, employeePermission>>
        ELSE IF ~added.ok
        THEN /\ last' = Response("assign", 400, req, {})
             /\ UNCHANGED <<ROLE_PERMISSIONS, employeePermission>>
        ELSE /\ ROLE_PERMISSIONS' = added.table
             /\ employeePermission' = created.rows
             /\ last' = Response("assign", IF created.ok THEN 200 ELSE 500, req, {})

\* POST employees/permissions/revoke
PermissionRevoke(role, permission) ==
  LET req == [role |-> role, permission |-> permission]
      removed == RemovePermissionFromRole(ROLE_PERMISSIONS, role, permission)
      holders == { x.id : x \in { y \in employee : y.role = role } }
  IN /\ UNCHANGED <<creneaux, syntheses, plannings, nextId, reqs, statuts, conges,
                    employee>>
     /\ IF ~removed.ok
        THEN /\ last' = Response("revoke", 400, req, {})
             /\ UNCHANGED <<ROLE_PERMISSIONS, employeePermission>>
        ELSE /\ ROLE_PERMISSIONS' = removed.table
             /\ employeePermission' =
                  { r \in employeePermission :
                      ~(r.permission = permission /\ r.employeeId \in holders) }
             /\ last' = Response("revoke", 200, req, {})

\* ------------------------------------------------ requests in flight
\* A handler run one await at a time is a record of reqs: its position pc,
\* the data of its request, and what it has read so far.
FreeRids == (1..MaxReqs) \ { r.rid : r \in reqs }
Pending(pcs) == { r \in reqs : r.pc \in pcs }

\* POST time-slots/create, first awaits: the conflict query and the two
\* existence checks.  A request that passes goes on to creneau.create.
CreateCheck(planningId, employeeId, dateDebut, dateFin, duree, valide, now) ==
  LET conflicts == CreateConflicts(creneaux, planningId, employeeId, dateDebut, dateFin)
      req == [planningId |-> planningId, employeeId |-> employeeId]
  IN /\ FreeRids # {}
     /\ UNCHANGED <<creneaux, syntheses, plannings, statuts, conges, nextId, roles>>
     /\ IF conflicts # {}
        THEN /\ last' = Response("tscreate", 409, req, Ids(conflicts))
             /\ UNCHANGED reqs
        ELSE IF planningId \notin plannings
        THEN /\ last' = Response("tscreate", 404, req, {})
             /\ UNCHANGED reqs
        ELSE /\ nextId + Cardinality(Pending({"create"})) <= MaxSlots
             /\ reqs' = reqs \cup
                  { [rid |-> Min(FreeRids), pc |-> "create",
                     data |-> Candidate({}, employeeId, dateDebut, dateFin, duree, valide),
                     planningId |-> planningId, now |-> now, total |-> {}] }
             /\ UNCHANGED last

\* prisma.creneau.create
CreateInsert(r) ==
  /\ r.pc = "create"
  /\ creneaux' = creneaux \cup
       { Creneau(nextId, r.planningId, r.data.employeeId, r.data.dateDebut,
                 r.data.dateFin, r.data.duree, r.data.valide) }
  /\ nextId' = nextId + 1
  /\ reqs' = (reqs \ {r}) \cup {[r EXCEPT !.pc = "sum"]}
  /\ UNCHANGED <<syntheses, plannings, statuts, conges, last, roles>>

\* updateSynthese of time-slots/create: creneau.findMany and the sum
CreateSum(r) ==
  /\ r.pc = "sum"
  /\ reqs' = (reqs \ {r}) \cup
       {[r EXCEPT !.pc = "upsert",
                  !.total = {TotalMinutes(creneaux, r.planningId, r.data.employeeId)}]}
  /\ UNCHANGED <<creneaux, syntheses, plannings, statuts, conges, nextId, last, roles>>

\* updateSynthese of time-slots/create: syntheseHeures.upsert, then the 201
CreateUpsert(r) ==
  /\ r.pc = "upsert"
  /\ syntheses' = SyntheseUpsert(syntheses, r.planningId, r.data.employeeId,
                                 Val(r.total) \div 60, Val(r.total) % 60, r.now)
  /\ last' = Response("tscreate", 201,
                      [planningId |-> r.planningId, employeeId |-> r.data.employeeId],
                      { [planningId |-> r.planningId, employeeId |-> r.data.employeeId,
                         totalMinutes |-> Val(r.total)] })
  /\ reqs' = reqs \ {r}
  /\ UNCHANGED <<creneaux, plannings, statuts, conges, nextId, roles>>

\* PUT time-slots/update/[id] up to creneau.update inside the transaction.
\* The updated row stays invisible to the other connections (and locked)
\* until the commit; an update that does not call updateSynthese commits at
\* once.
UpdateBegin(id, employeeId, dateDebut, dateFin, duree, valide, now) ==
  LET found == { s \in creneaux : s.id = id }
      existingTimeSlot == CHOOSE s \in found : TRUE
      checked == dateDebut # {} \/ dateFin # {}
      startDate == IF dateDebut # {} THEN Val(dateDebut) ELSE existingTimeSlot.dateDebut
      endDate == IF dateFin # {} THEN Val(dateFin) ELSE existingTimeSlot.dateFin
      target == IF employeeId # NoEmployee THEN employeeId ELSE existingTimeSlot.employeeId
      conflicts == UpdateConflicts(creneaux, id, target, startDate, endDate)
      timeSlot == [existingTimeSlot EXCEPT
                     !.employeeId = target,
                     !.dateDebut = startDate,
                     !.dateFin = endDate,
                     !.duree = IF duree # {} THEN Val(duree) ELSE @,
                     !.valide = IF valide # {} THEN Val(valide) ELSE @]
      recompute == duree # {} \/ employeeId # NoEmployee
  IN /\ FreeRids # {}
     /\ \A r \in reqs : r.data.id # id
     /\ UNCHANGED <<syntheses, plannings, statuts, conges, nextId, roles>>
     /\ IF found = {}
        THEN /\ last' = Response("tsupdate", 404, [id |-> id], {})
             /\ UNCHANGED <<creneaux, reqs>>
        ELSE IF checked /\ conflicts # {}
        THEN /\ last' = Response("tsupdate", 409, [id |-> id], Ids(conflicts))
             /\ UNCHANGED <<creneaux, reqs>>
        ELSE IF recompute
        THEN /\ reqs' = reqs \cup
                  { [rid |-> Min(FreeRids), pc |-> "findMany", data |-> timeSlot,
                     planningId |-> timeSlot.planningId, now |-> now,
                     total |-> {}, existing |-> {}] }
             /\ UNCHANGED <<creneaux, last>>
        ELSE /\ creneaux' = (creneaux \ found) \cup {timeSlot}
             /\ last' = Response("tsupdate", 200, [id |-> id], {})
             /\ UNCHANGED reqs

\* updateSynthese of time-slots/update: creneau.findMany through the
\* module-level client, which sees the committed rows only.
UpdateSum(r) ==
  /\ r.pc = "findMany"
  /\ reqs' = (reqs \ {r}) \cup
       {[r EXCEPT !.pc = "findFirst",
                  !.total = {TotalMinutes(creneaux, r.planningId, r.data.employeeId)}]}
  /\ UNCHANGED <<creneaux, syntheses, plannings, statuts, conges, nextId, last, roles>>

\* updateSynthese of time-slots/update: syntheseHeures.findFirst
UpdateFind(r) ==
  /\ r.pc = "findFirst"
  /\ reqs' = (reqs \ {r}) \cup
       {[r EXCEPT !.pc = "write",
                  !.existing = {SyntheseFind(syntheses, r.planningId,
                                             r.data.employeeId) # {}}]}
  /\ UNCHANGED <<creneaux, syntheses, plannings, statuts, conges, nextId, last, roles>>

\* updateSynthese of time-slots/update: syntheseHeures.update or .create.
\* When the write throws, the transaction rolls back and the handler answers
\* 500; otherwise the transaction commits and the handler answers 200.
UpdateWrite(r) ==
  LET e == r.data.employeeId
      T == Val(r.total)
      written ==
        IF Val(r.existing)
        THEN [ok |-> SyntheseFind(syntheses, r.planningId, e) # {},
              rows |-> SyntheseSet(syntheses, r.planningId, e, T \div 60, T % 60)]
        ELSE SyntheseInsert(syntheses, Synthese(r.planningId, e, r.now, r.now,
                                                T \div 60, T % 60))
      res == { [planningId |-> r.planningId, employeeId |-> e, totalMinutes |-> T] }
  IN /\ r.pc = "write"
     /\ reqs' = reqs \ {r}
     /\ UNCHANGED <<plannings, statuts, conges, nextId, roles>>
     /\ IF written.ok
        THEN /\ syntheses' = written.rows
             /\ creneaux' = { s \in creneaux : s.id # r.data.id } \cup {r.data}
             /\ last' = Response("tsupdate", 200, [id |-> r.data.id], res)
        ELSE /\ last' = Response("tsupdate", 500, [id |-> r.data.id], res)
             /\ UNCHANGED <<creneaux, syntheses>>

\* updateSynthese of time-slots/update writes through the module-level
\* client, outside the interactive transaction of the handler.  When the
\* transaction has outlived its timeout (5 s by default) by the time the
\* callback returns, the commit is refused and creneau.update is rolled
\* back, while the summary write, made on another connection, stays; the
\* handler answers 500.
UpdateExpire(r) ==
  LET e == r.data.employeeId
      T == Val(r.total)
      written ==
        IF Val(r.existing)
        THEN [ok |-> SyntheseFind(syntheses, r.planningId, e) # {},
              rows |-> SyntheseSet(syntheses, r.planningId, e, T \div 60, T % 60)]
        ELSE SyntheseInsert(syntheses, Synthese(r.planningId, e, r.now, r.now,
                                                T \div 60, T % 60))
      res == { [planningId |-> r.planningId, employeeId |-> e, totalMinutes |-> T] }
  IN /\ r.pc = "write"
     /\ written.ok
     /\ reqs' = reqs \ {r}
     /\ syntheses' = written.rows
     /\ last' = Response("tsupdate", 500, [id |-> r.data.id], res)
     /\ UNCHANGED <<creneaux, plannings, statuts, conges, nextId, roles>>

\* DELETE time-slots/delete/[id], await by await.  The transaction callback
\* deletes the row and arms a zero-delay timer; the commit that follows the
\* callback and the timer callback are not ordered.  Until the commit the
\* other connections still see the row.
DeleteBegin(id, now) ==
  LET found == { s \in creneaux : s.id = id }
      timeSlot == CHOOSE s \in found : TRUE
  IN /\ FreeRids # {}
     /\ \A r \in reqs : r.data.id # id
     /\ UNCHANGED <<creneaux, syntheses, plannings, statuts, conges, nextId, roles>>
     /\ IF found = {}
        THEN /\ last' = Response("tsdelete", 404, [id |-> id], {})
             /\ UNCHANGED reqs
        ELSE /\ reqs' = reqs \cup
                  { [rid |-> Min(FreeRids), pc |-> "timer", committed |-> FALSE,
                     data |-> timeSlot, planningId |-> timeSlot.planningId,
                     now |-> now, total |-> {}] }
             /\ UNCHANGED last

\* A request leaves reqs when both its transaction and its timer are over.
DeleteStep(r, after) ==
  IF after.committed /\ after.pc = "done"
  THEN reqs \ {r}
  ELSE (reqs \ {r}) \cup {after}

\* The commit of the transaction, then the 200.
DeleteCommit(r) ==
  /\ r.pc \in {"timer", "defer", "done"}
  /\ ~r.committed
  /\ creneaux' = { s \in creneaux : s.id # r.data.id }
  /\ reqs' = DeleteStep(r, [r EXCEPT !.committed = TRUE])
  /\ last' = Response("tsdelete", 200, [id |-> r.data.id], {})
  /\ UNCHANGED <<syntheses, plannings, statuts, conges, nextId, roles>>

\* The timer callback: creneau.findMany of updateSynthese through the
\* module-level client, which sees the committed rows only.
DeleteSum(r) ==
  /\ r.pc = "timer"
  /\ reqs' = (reqs \ {r}) \cup
       {[r EXCEPT !.pc = "defer",
                  !.total = {TotalMinutes(creneaux, r.planningId, r.data.employeeId)}]}
  /\ UNCHANGED <<creneaux, syntheses, plannings, statuts, conges, nextId, last, roles>>

\* The log line of the timer callback: the pair, the minutes it summed, and
\* 200 when the write went through or 500 when it threw.
Deferred(r, status) ==
  Response("synthese", status,
           [planningId |-> r.planningId, employeeId |-> r.data.employeeId],
           { [planningId |-> r.planningId, employeeId |-> r.data.employeeId,
              totalMinutes |-> Val(r.total)] })

\* The timer callback: syntheseHeures.upsert when minutes were summed,
\* deleteMany otherwise.
DeleteWrite(r) ==
  LET e == r.data.employeeId
      totalMinutes == Val(r.total)
  IN /\ r.pc = "defer"
     /\ syntheses' = IF totalMinutes > 0
                     THEN SyntheseUpsert(syntheses, r.planningId, e,
                                         totalMinutes \div 60, totalMinutes % 60, r.now)
                     ELSE SyntheseDeleteMany(syntheses, r.planningId, e)
     /\ reqs' = DeleteStep(r, [r EXCEPT !.pc = "done"])
     /\ last' = Deferred(r, 200)
     /\ UNCHANGED <<creneaux, plannings, statuts, conges, nextId, roles>>

\* The timer callback when its write throws: the catch logs the error and
\* the callback ends.
DeleteFail(r) ==
  /\ r.pc = "defer"
  /\ reqs' = DeleteStep(r, [r EXCEPT !.pc = "done"])
  /\ last' = Deferred(r, 500)
  /\ UNCHANGED <<creneaux, syntheses, plannings, statuts, conges, nextId, roles>>

Windows == { w \in Times \X Times : w[1] < w[2] }

Candidates(ids, W, D, V) ==
  { Candidate(i, e, w[1], w[2], m, v) :
      i \in ids, e \in Employees, w \in W, m \in D, v \in V }

Batches(sizes, C) == UNION { [1..n -> C] : n \in sizes }

\* The requests of each handler, with inputs drawn from windows W,
\* durations D, valide flags V and request times C.
CheckReq(W) ==
  \E e \in Employees, w \in W, i \in Opt(SlotIds), p \in PlanningIds \cup {NoPlanning} :
    CheckConflicts(e, w[1], w[2], i, p)

TSCreateReq(W, D, V, C) ==
  \E p \in PlanningIds, e \in Employees, w \in W, m \in D, v \in V, now \in C :
    TSCreate(p, e, w[1], w[2], m, v, now)

\* DD, DF: the new dateDebut and dateFin an update may carry.
TSUpdateReq(DD, DF, D, V, C) ==
  \E i \in SlotIds, e \in Employees \cup {NoEmployee},
     d \in Opt(DD), f \in Opt(DF), m \in Opt(D), v \in Opt(V), now \in C :
    TSUpdate(i, e, d, f, m, v, now)

TSDeleteReq(C) ==
  \E i \in SlotIds, now \in C : TSDelete(i, now)

\* S: the statuts a planning request may carry.
PlanningCreateReq(W, D, N, S) ==
  \E st \in S, batch \in Batches(N, Candidates({{}}, W, D, {FALSE})) :
    PlanningCreate(st, batch)

PlanningUpdateReq(W, D, V, N, S) ==
  \E p \in PlanningIds, st \in Opt(S),
     batch \in Batches(N, Candidates(Opt(SlotIds), W, D, V)) :
    PlanningUpdate(p, st, batch)

\* The callers: a plain employee, a manager, an administrator.
Permissions == { {"LEAVE_REQUEST"}, {"LEAVE_REQUEST", "LEAVE_APPROVE", "LEAVE_MANAGE"} }
Callers ==
  { Decoded(e, ps, FALSE) : e \in Employees, ps \in Permissions }
    \cup { Decoded(e, {}, TRUE) : e \in Employees }
LeaveTimes == 0..MaxLeaveTime
CongeIds == 1..MaxConges
StatutsDemande == {"EN_ATTENTE", "VALIDE", "REJETEE", "ANNULEE"}

\* The requests of the leave handlers by callers K, with leave windows W,
\* request times C and, for the update, new dates DD, DF and statuts S.
LeaveCreateReq(K, W) == \E d \in K, w \in W : LeaveCreate(d, w[1], w[2])
LeaveApproveReq(K) == \E d \in K, i \in CongeIds : LeaveApprove(d, i)
LeaveRejectReq(K) == \E d \in K, i \in CongeIds : LeaveReject(d, i)
LeaveCancelReq(K, C) == \E d \in K, i \in CongeIds, now \in C : LeaveCancel(d, i, now)
LeaveUpdateReq(K, DD, DF, S) ==
  \E d \in K, i \in CongeIds, b \in Opt(DD), f \in Opt(DF), st \in Opt(S) :
    LeaveUpdate(d, i, b, f, st)

StatutsValidation == {"BROUILLON", "VALIDE", "REJETE", "ANNULE"}

PlanningDeleteReq == \E p \in PlanningIds : PlanningDelete(p)

\* check-conflicts without exclusions
CheckLeaveReq(W) ==
  \E e \in Employees, w \in W : CheckConflicts(e, w[1], w[2], {}, NoPlanning)

\* Spec: slot creation, slot update and planning creation, one after the
\* other; one duration, one request time.
Next ==
  \/ TSCreateReq(Windows, {30}, {FALSE}, {0})
  \/ TSUpdateReq({0}, {MaxTime}, {}, {}, {0})
  \/ PlanningCreateReq(Windows, {30}, {1}, {"BROUILLON"})

Spec == Init /\ [][Next]_vars

\* SpecCheck: the check-conflicts endpoint over the stores that slot and
\* planning creation build; the queried window is any pair of instants.
NextCheck ==
  \/ TSCreateReq(Windows, {30}, {FALSE}, {0})
  \/ PlanningCreateReq(Windows, {30}, {1}, {"BROUILLON"})
  \/ CheckReq(Times \X Times)

SpecCheck == Init /\ [][NextCheck]_vars

\* SpecPlanning: planning submissions and planning updates over the stores
\* that slot creation builds.
NextPlanning ==
  \/ TSCreateReq(Windows, {30}, {FALSE}, {0})
  \/ PlanningCreateReq(Windows, {30}, BatchSizes, {"BROUILLON"})
  \/ PlanningUpdateReq(Windows, {30}, {FALSE}, {0, 1}, {})

SpecPlanning == Init /\ [][NextPlanning]_vars

\* SpecHours: the time-slot handlers with one window, every duration, both
\* valide flags and both request times.
NextHours ==
  \/ TSCreateReq({<<0, 1>>}, Durees, BOOLEAN, Clock)
  \/ TSUpdateReq({}, {}, Durees, {}, Clock)
  \/ TSDeleteReq(Clock)

SpecHours == Init /\ [][NextHours]_vars

\* SpecDelete: planning deletion over plannings of every statut and the
\* slots that planning and slot creation put in them.
NextDelete ==
  \/ TSCreateReq({<<0, 1>>}, {30}, {FALSE}, {0})
  \/ PlanningCreateReq({<<1, 2>>}, {30}, {1}, StatutsValidation)
  \/ PlanningUpdateReq({}, {}, {}, {0}, StatutsValidation)
  \/ PlanningDeleteReq

SpecDelete == Init /\ [][NextDelete]_vars

\* SpecLeave: check-conflicts over the leaves that the leave handlers
\* build; every caller is an administrator.
Admins == { d \in Callers : d.hasAllAccess }
NextLeave ==
  \/ LeaveCreateReq(Admins, { w \in LeaveTimes \X LeaveTimes : w[1] < w[2] })
  \/ LeaveApproveReq(Admins)
  \/ LeaveRejectReq(Admins)
  \/ LeaveCancelReq(Admins, {0})
  \/ CheckLeaveReq({ w \in LeaveTimes \X LeaveTimes : w[1] < w[2] })

SpecLeave == Init /\ [][NextLeave]_vars

\* SpecWorkflow: the handlers that write the statut of a leave request, by
\* every caller, over leaves of one window.
NextWorkflow ==
  \/ LeaveCreateReq(Callers, {<<2, 3>>})
  \/ LeaveApproveReq(Callers)
  \/ LeaveRejectReq(Callers)
  \/ LeaveCancelReq(Callers, {1, 3})
  \/ LeaveUpdateReq(Callers, {3}, {}, StatutsDemande)

SpecWorkflow == Init /\ [][NextWorkflow]_vars

\* SpecBlock: slot and planning creation over the leaves that leave creation
\* and approval store.
NextBlock ==
  \/ LeaveCreateReq(Admins, {<<0, 2>>, <<1, 2>>})
  \/ LeaveApproveReq(Admins)
  \/ TSCreateReq(Windows, {30}, {FALSE}, {0})
  \/ PlanningCreateReq(Windows, {30}, {1}, {"BROUILLON"})

SpecBlock == Init /\ [][NextBlock]_vars

\* SpecBounds: the four slot-writing handlers with windows whose bounds are
\* in order, equal or reversed, the schemas leaving the order free.
NextBounds ==
  \/ TSCreateReq({<<0, 1>>, <<1, 0>>}, {30}, {FALSE}, {0})
  \/ \E i \in SlotIds, d \in Opt({MaxTime}), f \in Opt({0}) :
       TSUpdate(i, NoEmployee, d, f, {}, {}, 0)
  \/ PlanningCreateReq({<<0, 1>>, <<1, 1>>}, {30}, {1}, {"BROUILLON"})
  \/ \E batch \in Batches({1}, Candidates({{}}, {<<1, 2>>, <<2, 1>>}, {30}, {FALSE})) :
       PlanningUpdate("p1", {}, batch)

SpecBounds == Init /\ [][NextBounds]_vars

\* SpecRoles: the role-permission endpoints over the employees that
\* employee creation adds, with or without permissions of their own.
Emails == {"e3", "e4"}
EnumRole == {"EMPLOYE_BASE", "MANAGER", "ADMIN"}
Assignable == {"PLANNING_CREATE", "LEAVE_APPROVE"}

NextRoles ==
  \/ \E m \in Emails, role \in EnumRole, ps \in SUBSET Assignable :
       EmployeeCreate(m, role, ps)
  \/ \E role \in EnumRole, p \in Assignable : PermissionAssign(role, p)
  \/ \E role \in EnumRole, p \in Assignable : PermissionRevoke(role, p)

SpecRoles == Init /\ [][NextRoles]_vars

\* SpecRace: time-slot creations that interleave await by await, over two
\* plannings that exist and hold no slot.
InitRace ==
  /\ creneaux = {}
  /\ syntheses = {}
  /\ plannings = PlanningIds
  /\ nextId = 1
  /\ last = Response("init", 200, {}, {})
  /\ reqs = {}
  /\ statuts = [p \in PlanningIds |-> "BROUILLON"]
  /\ conges = {}
  /\ ROLE_PERMISSIONS = DefaultRolePermissions
  /\ employee = { [id |-> e, role |-> "EMPLOYE_BASE"] : e \in Employees }
  /\ employeePermission =
       { [employeeId |-> e, permission |-> p] :
           e \in Employees, p \in DefaultRolePermissions["EMPLOYE_BASE"] }

NextRace ==
  \/ \E p \in PlanningIds, e \in Employees, w \in Windows, now \in Clock :
       CreateCheck(p, e, w[1], w[2], 30, FALSE, now)
  \/ \E r \in reqs : CreateInsert(r)
  \/ \E r \in reqs : CreateSum(r)
  \/ \E r \in reqs : CreateUpsert(r)

SpecRace == InitRace /\ [][NextRace]_vars

\* SpecConc: time-slot updates that change the employee and interleave await
\* by await, over the slots that slot creation puts in one planning.
NextConc ==
  \/ \E e \in Employees : TSCreate("p1", e, 0, 1, 30, FALSE, 0)
  \/ \E i \in SlotIds, e \in Employees \cup {NoEmployee}, now \in Clock :
       UpdateBegin(i, e, {}, {}, {}, {}, now)
  \/ \E r \in reqs : UpdateSum(r)
  \/ \E r \in reqs : UpdateFind(r)
  \/ \E r \in reqs : UpdateWrite(r)

SpecConc == Init /\ [][NextConc]_vars

\* SpecAtomic: the two handlers that recompute hours inside their slot-write
\* transaction, planning creation and time-slot update; the update advances
\* one database call at a time, one request at a time, and its transaction
\* may expire before the commit.
NextAtomic ==
  \/ \E e \in Employees : TSCreate("p1", e, 0, 1, 30, FALSE, 0)
  \/ PlanningCreateReq({<<1, 2>>}, {30}, {1}, {"BROUILLON"})
  \/ \E i \in SlotIds, e \in Employees \cup {NoEmployee}, m \in Opt({75}) :
       reqs = {} /\ UpdateBegin(i, e, {}, {}, m, {}, 0)
  \/ \E r \in reqs : UpdateSum(r)
  \/ \E r \in reqs : UpdateFind(r)
  \/ \E r \in reqs : UpdateWrite(r)
  \/ \E r \in reqs : UpdateExpire(r)

SpecAtomic == Init /\ [][NextAtomic]_vars

\* SpecDefer: time-slot deletions that advance one database call at a time
\* and interleave, over the slots that slot creation puts in one planning.
NextDefer ==
  \/ \E e \in Employees, m \in Durees : TSCreate("p1", e, 0, 1, m, FALSE, 0)
  \/ \E i \in SlotIds, now \in Clock : DeleteBegin(i, now)
  \/ \E r \in reqs : DeleteCommit(r)
  \/ \E r \in reqs : DeleteSum(r)
  \/ \E r \in reqs : DeleteWrite(r)
  \/ \E r \in reqs : DeleteFail(r)

SpecDefer == Init /\ [][NextDefer]_vars

\* SpecDeferFair: the same, where the database answers and the event loop
\* runs the armed timers; no client is bound to send a request.
FairDefer ==
  /\ WF_vars(\E r \in reqs : DeleteCommit(r))
  /\ WF_vars(\E r \in reqs : DeleteSum(r))
  /\ WF_vars(\E r \in reqs : DeleteWrite(r) \/ DeleteFail(r))

SpecDeferFair == Init /\ [][NextDefer]_vars /\ FairDefer

\* ---------------------------------------------------------------- claims
Query == last.req
Unfiltered == Query.ignoreCreneauId = {} /\ Query.planningId = NoPlanning

\* C1: check-conflicts without exclusions returns exactly the stored slots S
\* of the employee with S.start < windowEnd and windowStart < S.end (every
\* one of them), and hasConflicts is true exactly when that list is not empty.
C1_OverlapExactly ==
  (last.op = "check" /\ Unfiltered) =>
    /\ last.res.conflicts =
         { s.id : s \in { t \in creneaux : /\ t.employeeId = Query.employeeId
                                           /\ t.dateDebut < Query.dateFin
                                           /\ Query.dateDebut < t.dateFin } }
    /\ last.res.hasConflicts = (last.res.conflicts # {})

\* Two slots are returned, one of which ends where the window ends.
C1_Witness ==
  /\ last.op = "check" /\ Unfiltered
  /\ Cardinality(last.res.conflicts) >= 2
  /\ \E s \in creneaux : s.employeeId = Query.employeeId /\ s.dateFin = Query.dateFin

\* C2: no two stored slots of one employee that belong to different
\* plannings overlap (half-open), whatever sequence of handlers ran.
C2_NoDoubleBooking ==
  \A s \in creneaux : \A t \in creneaux :
    (s.id # t.id /\ s.employeeId = t.employeeId /\ s.planningId # t.planningId) =>
      ~(s.dateDebut < t.dateFin /\ t.dateDebut < s.dateFin)

\* C3: of two time-slot creations that interleave, for one employee, in
\* different plannings and with overlapping windows, at most one slot is
\* stored.
C3_AtMostOnePersisted ==
  \A s \in creneaux : \A t \in creneaux :
    (s.id < t.id /\ s.employeeId = t.employeeId /\ s.planningId # t.planningId) =>
      (t.dateDebut >= s.dateFin \/ s.dateDebut >= t.dateFin)

\* C4: check-conflicts with ignoreCreneauId = A never returns slot A.
C4_SelfExclusion ==
  (last.op = "check" /\ Query.ignoreCreneauId # {}) =>
    Val(Query.ignoreCreneauId) \notin last.res.conflicts

\* C5: check-conflicts with planningId = P returns no slot of planning P.
C5_PlanningExclusion ==
  (last.op = "check" /\ Query.planningId # NoPlanning) =>
    \A s \in creneaux : s.id \in last.res.conflicts => s.planningId # Query.planningId

\* C6: after a successful time-slot create for (P, E) the summary of (P, E)
\* exists and holds floor(T / 60) and T mod 60, T the sum of the durations of
\* all the stored slots of (P, E), validated or not.
C6_CreateSummary ==
  (last.op = "tscreate" /\ last.status = 201) =>
    LET T == SumDuree({ s \in creneaux : /\ s.planningId = Query.planningId
                                         /\ s.employeeId = Query.employeeId })
        rows == SyntheseFind(syntheses, Query.planningId, Query.employeeId)
    IN /\ Cardinality(rows) = 1
       /\ \A r \in rows : r.heuresNormales = T \div 60 /\ r.heuresSupplementaires = T % 60

\* The created slot joins a slot of the pair with the other valide flag.
C6_Witness ==
  /\ last.op = "tscreate" /\ last.status = 201
  /\ \E s \in creneaux : \E t \in creneaux :
       /\ s.planningId = Query.planningId /\ s.employeeId = Query.employeeId
       /\ t.planningId = Query.planningId /\ t.employeeId = Query.employeeId
       /\ s.valide /\ ~t.valide

\* C7: when the recomputation of a time-slot create, update or delete ran
\* for a pair for which it summed zero slots, no summary row of the pair is
\* left.
C7_ZeroSlot ==
  (last.op \in {"tscreate", "tsupdate", "tsdelete"} /\ last.status \in {200, 201}) =>
    \A rc \in last.res :
      rc.totalMinutes = 0 => SyntheseFind(syntheses, rc.planningId, rc.employeeId) = {}

\* C8: a second run of the hour recomputation for the same pair over the
\* same slots leaves the summaries as the first run left them (existence,
\* hours, period and status), for the routine of update and of delete.
C8_RecomputeIdempotent ==
  \A p \in PlanningIds : \A e \in Employees : \A n1 \in Clock : \A n2 \in Clock :
    LET onceD == UpdateSyntheseDelete(creneaux, syntheses, p, e, n1)
        onceU == UpdateSyntheseUpdate(creneaux, syntheses, p, e, n1)
    IN /\ UpdateSyntheseDelete(creneaux, onceD, p, e, n2) = onceD
       /\ onceU.ok => UpdateSyntheseUpdate(creneaux, onceU.rows, p, e, n2) = onceU

\* The recomputation of a delete has just run and left a row for its pair.
C8_Witness ==
  /\ last.op = "tsdelete" /\ last.status = 200
  /\ \E rc \in last.res : SyntheseFind(syntheses, rc.planningId, rc.employeeId) # {}

\* C9: there is never more than one summary row per (planningId,
\* employeeId), also when requests interleave, and the write of an update
\* that would create a row for a pair that has one fails (500) and leaves the
\* table as it was.
C9_OneSummaryPerPair ==
  /\ [](\A a \in syntheses : \A b \in syntheses :
          (a.planningId = b.planningId /\ a.employeeId = b.employeeId) => a = b)
  /\ [][\A r \in reqs :
          (/\ UpdateWrite(r)
           /\ ~Val(r.existing)
           /\ SyntheseFind(syntheses, r.planningId, r.data.employeeId) # {})
          => (last'.status = 500 /\ syntheses' = syntheses)]_vars

\* An update was answered 500 because the row it wanted to create existed.
C9_Witness ==
  /\ last.op = "tsupdate" /\ last.status = 500
  /\ \A rc \in last.res : SyntheseFind(syntheses, rc.planningId, rc.employeeId) # {}
  /\ \E s \in creneaux : s.id = last.req.id /\ \A rc \in last.res : s.employeeId # rc.employeeId

\* C10: a planning submission is rejected (409) exactly when one of its
\* slots overlaps a stored slot of the same employee, which belongs to
\* another planning; slots of the submission that overlap each other are not
\* a conflict.
C10_BatchConflicts ==
  (last.op = "plcreate") =>
    LET batch == last.req
        created == IF last.status = 201 THEN last.res ELSE {}
        others == { s \in creneaux : s.planningId \notin created }
    IN /\ last.status \in {201, 409}
       /\ (last.status = 409) <=>
            \E i \in DOMAIN batch : \E s \in others :
              /\ s.employeeId = batch[i].employeeId
              /\ s.dateDebut < batch[i].dateFin
              /\ batch[i].dateDebut < s.dateFin

\* A submission is accepted with two slots of one employee that overlap.
C10_Witness ==
  /\ last.op = "plcreate" /\ last.status = 201
  /\ \E i \in DOMAIN last.req : \E j \in DOMAIN last.req :
       /\ i # j
       /\ last.req[i].employeeId = last.req[j].employeeId
       /\ last.req[i].dateDebut < last.req[j].dateFin
       /\ last.req[j].dateDebut < last.req[i].dateFin
\* C11: the two-phase batch check (bounding window per employee, then each
\* proposal) reports the same (proposal, conflicting stored slot) pairs as
\* one query per proposal: the conflicts of a rejected submission are those
\* of the per-proposal check, and an accepted one has none.
C11_TwoPhaseIsNaive ==
  (last.op = "plcreate") =>
    LET created == IF last.status = 201 THEN last.res ELSE {}
        stored == { s \in creneaux : s.planningId \notin created }
        naive == CheckCreneauConflictsNaive(stored, last.req)
    IN IF last.status = 409 THEN last.res = naive ELSE naive = {}

\* Of two proposals of one employee, one is reported: the stored slot lies
\* in their bounding window and overlaps only one of them.
C11_Witness ==
  /\ last.op = "plcreate" /\ last.status = 409
  /\ Len(last.req) = 2
  /\ last.req[1].employeeId = last.req[2].employeeId
  /\ Cardinality(last.res) = 1
\* The day of an instant of a leave: two instants a day.
DayOf(t) == t \div 2

\* C12: when the employee has a leave with statut VALIDE that began before
\* the window and whose last day is the day on which the window starts,
\* check-conflicts answers leaveStatus EN_CONGE, whatever the time of day at
\* which the window starts.
C12_LeaveBoundaryDay ==
  (/\ last.op = "check"
   /\ \E c \in conges : /\ c.employeeId = Query.employeeId
                        /\ c.statut = "VALIDE"
                        /\ c.dateDebut <= Query.dateDebut
                        /\ DayOf(c.dateFin) = DayOf(Query.dateDebut))
    => last.res.leaveStatus = "EN_CONGE"

\* C13: check-conflicts answers EN_CONGE exactly when the employee has a
\* leave with statut EN_ATTENTE or VALIDE whose closed interval meets the
\* window; leaves that are REJETEE or ANNULEE do not count.
C13_ActiveLeaveStatuses ==
  (last.op = "check") =>
    (last.res.leaveStatus = "EN_CONGE" <=>
       \E c \in conges : /\ c.employeeId = Query.employeeId
                         /\ c.statut \in {"EN_ATTENTE", "VALIDE"}
                         /\ c.dateDebut <= Query.dateFin
                         /\ c.dateFin >= Query.dateDebut)
\* C14: the statut of a leave request only ever changes from EN_ATTENTE to
\* VALIDE, REJETEE or ANNULEE, or from VALIDE to ANNULEE by a cancellation
\* made when the leave has not started; REJETEE and ANNULEE are final.
C14_StatutTransitions ==
  [][\A c \in conges : \A d \in conges' :
       (c.id = d.id /\ c.statut # d.statut) =>
         \/ c.statut = "EN_ATTENTE" /\ d.statut \in {"VALIDE", "REJETEE", "ANNULEE"}
         \/ /\ c.statut = "VALIDE" /\ d.statut = "ANNULEE"
            /\ last'.op = "lvcancel" /\ last'.req.now <= c.dateDebut]_vars

\* The step is an approve, reject or update request made by the employee
\* who owns the leave request it names.
SelfDecision ==
  /\ last'.op \in {"lvapprove", "lvreject", "lvupdate"}
  /\ \E c \in conges : c.id = last'.req.id /\ c.employeeId = last'.req.employeeId

C16_ValidePlanningKept ==
  [][\A p \in plannings :
       (statuts[p] = "VALIDE" /\ last'.op = "pldelete" /\ last'.req.id = p) =>
         /\ last'.status # 200
         /\ UNCHANGED <<plannings, statuts, creneaux, syntheses>>]_vars
\* C17: after a successful planning update, every employee with a slot in
\* the planning has a summary row that holds the quotient and the remainder
\* by 60 of the sum of the employee's slot durations, and no employee
\* without a slot in the planning has a row.
C17_BulkReplaceRecomputes ==
  (last.op = "plupdate" /\ last.status = 200) =>
    \A e \in Employees :
      LET T == SumDuree({ s \in creneaux : s.planningId = Query.id /\ s.employeeId = e })
          rows == { r \in syntheses : r.planningId = Query.id /\ r.employeeId = e }
      IN IF \E s \in creneaux : s.planningId = Query.id /\ s.employeeId = e
         THEN /\ rows # {}
              /\ \A r \in rows : /\ r.heuresNormales = T \div 60
                                 /\ r.heuresSupplementaires = T % 60
         ELSE rows = {}
\* C18: planning creation stores, for each employee of the batch, one
\* summary row whose heuresNormales is the quotient by 60 of the employee's
\* total minutes in the batch and whose heuresSupplementaires is the
\* remainder.
C18_CreationSplitsTotal ==
  (last.op = "plcreate" /\ last.status = 201) =>
    \A planning \in last.res : \A i \in DOMAIN Query :
      LET T == SumBatch(Query, Group(Query, Query[i].employeeId))
      IN \E r \in syntheses :
           /\ r.planningId = planning
           /\ r.employeeId = Query[i].employeeId
           /\ r.heuresNormales = T \div 60
           /\ r.heuresSupplementaires = T % 60
\* The slot a successful time-slot update wrote, before and after the step.
Moved(s, t) ==
  /\ last'.op = "tsupdate" /\ last'.status = 200
  /\ s \in creneaux /\ t \in creneaux'
  /\ s.id = last'.req.id /\ t.id = s.id

\* The summary rows of the pair hold exactly the minutes of the pair's slots.
SummaryMatches(store, synth, planningId, employeeId) ==
  \E r \in synth :
    /\ r.planningId = planningId /\ r.employeeId = employeeId
    /\ 60 * r.heuresNormales + r.heuresSupplementaires
         = TotalMinutes(store, planningId, employeeId)

\* C19: after a time-slot update that moves a slot of planning P from
\* employee E1 to employee E2, the summary of (P, E2) includes the moved
\* minutes, and the summary of (P, E1) no longer includes them: it is
\* deleted when E1 has no slot left in P.
C19_MoveUpdatesBothSummaries ==
  [][\A s \in creneaux, t \in creneaux' :
       (Moved(s, t) /\ t.employeeId # s.employeeId) =>
         /\ SummaryMatches(creneaux', syntheses', t.planningId, t.employeeId)
         /\ IF PairSlots(creneaux', s.planningId, s.employeeId) = {}
            THEN SyntheseFind(syntheses', s.planningId, s.employeeId) = {}
            ELSE SummaryMatches(creneaux', syntheses', s.planningId, s.employeeId)]_vars

\* C20: after a time-slot update that changes the duration of a slot, the
\* summary of the slot's (planning, employee) pair satisfies
\* 60 * heuresNormales + heuresSupplementaires = the sum of the pair's slot
\* durations as stored after the update.
C20_DurationChangeRecomputed ==
  [][\A s \in creneaux, t \in creneaux' :
       (Moved(s, t) /\ t.duree # s.duree /\ t.employeeId = s.employeeId) =>
         SummaryMatches(creneaux', syntheses', t.planningId, t.employeeId)]_vars
\* C21: the handlers that recompute hours inside their slot-write
\* transaction are all-or-nothing: when a time-slot update or a planning
\* creation finishes, either its slot change and its summary change are both
\* persisted (success) or neither is (any other answer).
C21_SlotAndSummaryTogether ==
  [][/\ \A r \in reqs :
          (r.pc = "write" /\ r \notin reqs') =>
            IF last'.status = 200
            THEN /\ r.data \in creneaux'
                 /\ SyntheseFind(syntheses', r.planningId, r.data.employeeId) # {}
            ELSE creneaux' = creneaux /\ syntheses' = syntheses
     /\ (last'.op = "plcreate" /\ last' # last) =>
          IF last'.status = 201
          THEN creneaux' # creneaux /\ syntheses' # syntheses
          ELSE creneaux' = creneaux /\ syntheses' = syntheses]_vars
\* The summary of the pair is the split of the pair's stored slots, or is
\* absent when the pair has no slot.
SummaryIsSplit(store, synth, planningId, employeeId) ==
  IF PairSlots(store, planningId, employeeId) = {}
  THEN SyntheseFind(synth, planningId, employeeId) = {}
  ELSE SummaryMatches(store, synth, planningId, employeeId)

\* C22: the recomputation deferred by a time-slot delete never counts the
\* deleted slot: once it has run and the deletion has committed, the summary
\* of the pair is the split of the remaining slots, or absent when none
\* remain.
C22_DeferredAfterCommit ==
  (last.op = "synthese" /\ last.status = 200 /\ reqs = {}) =>
    SummaryIsSplit(creneaux, syntheses, Query.planningId, Query.employeeId)

\* A deferred recomputation that had summed the stored slots failed, nothing
\* happened since, and the summary of its pair is not the split of the
\* stored slots.
StaleAfterFailure ==
  /\ last.op = "synthese" /\ last.status = 500 /\ reqs = {}
  /\ \A rc \in last.res :
       rc.totalMinutes = TotalMinutes(creneaux, rc.planningId, rc.employeeId)
  /\ ~SummaryIsSplit(creneaux, syntheses, Query.planningId, Query.employeeId)

\* C23: a failed deferred recomputation is retried: with no further request,
\* the summary does not stay different from the split of the stored slots.
C23_FailedDeferredRetried ==
  []<>(~StaleAfterFailure)
\* C24: time-slot create and planning create store no slot for an employee
\* whose leave with statut EN_ATTENTE or VALIDE overlaps the slot's window.
C24_ActiveLeaveBlocksCreation ==
  [][\A s \in creneaux' \ creneaux :
       ~\E c \in conges : /\ c.employeeId = s.employeeId
                          /\ c.statut \in {"EN_ATTENTE", "VALIDE"}
                          /\ c.dateDebut < s.dateFin
                          /\ c.dateFin > s.dateDebut]_vars
\* C25: a time-slot create request whose planning does not exist is
\* rejected before the overlap check: it is never answered 409.
C25_MissingPlanningNever409 ==
  (last.op = "tscreate" /\ Query.planningId \notin plannings) => last.status # 409
\* C26: the overlap query of check-conflicts run with a zero-duration window
\* (dateDebut = dateFin) returns no slot, whatever the stored slots.
C26_ZeroWindowNoOverlap ==
  (last.op = "check" /\ Query.dateDebut = Query.dateFin) =>
    ~last.res.hasConflicts /\ last.res.conflicts = {}
\* C27: every stored slot has dateDebut < dateFin, after any sequence of
\* time-slot create, time-slot update, planning create and planning update.
C27_StartBeforeEnd ==
  \A s \in creneaux : s.dateDebut < s.dateFin
\* C28: a time-slot create or update answered 409 changes nothing: the
\* stored slots and every summary row are the same after the request as
\* before it.
C28_ConflictChangesNothing ==
  [][(last'.op \in {"tscreate", "tsupdate"} /\ last'.status = 409) =>
       creneaux' = creneaux /\ syntheses' = syntheses]_vars

\* A time-slot update was answered 409 over a store that holds slots and
\* summaries.
C28_Witness ==
  /\ last.op = "tsupdate" /\ last.status = 409
  /\ creneaux # {} /\ syntheses # {}
\* C29: no employee has two distinct leave requests with statut EN_ATTENTE
\* or VALIDE whose closed date intervals intersect.
C29_NoOverlappingActiveLeaves ==
  \A c \in conges : \A d \in conges :
    (/\ c.id # d.id
     /\ c.employeeId = d.employeeId
     /\ c.statut \in {"EN_ATTENTE", "VALIDE"}
     /\ d.statut \in {"EN_ATTENTE", "VALIDE"})
    => (c.dateFin < d.dateDebut \/ d.dateFin < c.dateDebut)
\* C30: when the database write of the assign endpoint fails (answer 500),
\* ROLE_PERMISSIONS is left as it was before the request.
C30_FailedAssignKeepsTable ==
  [][(last'.op = "assign" /\ last'.status = 500) =>
       ROLE_PERMISSIONS' = ROLE_PERMISSIONS]_vars
====
